---- MODULE Spec2Model ----
(***************************************************************************)
(* The cache-aside air quality handler of aws-weather-service:             *)
(*   repositories/cache.ts   createCacheKey, getCachedData, setCachedData  *)
(*   lambda/getAirQuality.ts handler (the caching variant that imports     *)
(*                           repositories/cache)                           *)
(* run by several Lambda invocations against one DynamoDB table.           *)
(*                                                                         *)
(* Numbers.  A coordinate is a decimal number of degrees, held as the      *)
(* integer count of 1/10000 degree (40.7128 is 407128).  A rounded key     *)
(* component is held as the integer count of hundredths.  The inputs are   *)
(* decimals for which the IEEE-754 product value * 100 lies on the same    *)
(* side of every half-way point as the exact product: either the product   *)
(* is not a tie, or the input is a dyadic rational (0.125, 0.375, ...),    *)
(* whose product with 100 is exact.                                        *)
(* A number that may be NaN (the TTL) is a record [nan, val].              *)
(***************************************************************************)
EXTENDS Integers, Sequences, FiniteSets, TLC

VARIABLES
    env,          \* process.env.CACHE_TTL_SECONDS, read once at module load
    now,          \* Date.now(), milliseconds
    store,        \* the DynamoDB table: locationKey -> Item
    writeInfo,    \* history: for each Item, the setCachedData call that wrote it,
                  \* with the request and the origin calls of its invocation
    pc,           \* per invocation: the await the handler is suspended at
    input,        \* per invocation: event.arguments.input
    locationKey,  \* per invocation: const locationKey
    cachedData,   \* per invocation: const cachedData
    response,     \* per invocation: const response
    data,         \* per invocation: const data
    result,       \* per invocation: const result
    pending,      \* per invocation: the PutCommand in flight
    caught,       \* per invocation: the error the catch block caught
    outcome,      \* per invocation: what the handler's promise settled to
    calls,        \* per invocation: history of the external calls it made
    started       \* number of invocations started so far

vars == <<env, now, store, writeInfo, pc, input, locationKey, cachedData,
          response, data, result, pending, caught, outcome, calls, started>>

-----------------------------------------------------------------------------
(* JavaScript values *)

undefined == [undefined |-> TRUE]
null == [null |-> TRUE]

\* an object is truthy; null and undefined are not
Truthy(v) == v # null /\ v # undefined

\* property access on an object: a missing property reads as undefined
Prop(obj, name) == IF name \in DOMAIN obj THEN obj[name] ELSE undefined

NaN == [nan |-> TRUE, val |-> 0]
Num(n) == [nan |-> FALSE, val |-> n]

\* a + b on numbers: NaN is absorbing
Plus(a, b) == IF a.nan \/ b.nan THEN NaN ELSE Num(a.val + b.val)

\* new Error(message); a thrown value that is no Error has isError FALSE
Error(message) == [isError |-> TRUE, message |-> message]

-----------------------------------------------------------------------------
(* Number -> string, for decimals n/den with den a power of ten *)

RECURSIVE Digits(_, _)
\* the digits of r, one per decimal place from `place` down, leading zeros kept
Digits(r, place) ==
    IF place = 0 THEN ""
    ELSE ToString(r \div place) \o Digits(r % place, place \div 10)

RECURSIVE NumberToString(_, _)
\* Number.prototype.toString: the shortest decimal, so no trailing zeros, no
\* decimal point for an integer, and "0" for both 0 and -0
NumberToString(n, den) ==
    IF den > 1 /\ n % 10 = 0 THEN NumberToString(n \div 10, den \div 10)
    ELSE LET a == IF n < 0 THEN -n ELSE n
             body == IF den = 1 THEN ToString(a)
                     ELSE ToString(a \div den) \o "." \o Digits(a % den, den \div 10)
         IN  IF n < 0 THEN "-" \o body ELSE body

\* a variant: a tie goes away from zero
MathRound_HalfAway(num, den) ==
    IF num >= 0 THEN (2 * num + den) \div (2 * den)
    ELSE -((2 * (-num) + den) \div (2 * den))

\* Math.round(num/den): the nearest integer, a tie going to the larger one
MathRound(num, den) == (2 * num + den) \div (2 * den)

-----------------------------------------------------------------------------
(* repositories/cache.ts *)

\* Math.round(value * 100) / 100, as a count of hundredths
RoundToHundredths(value) == MathRound(value, 100)

\* a variant: the latitude goes into the key as it came
createCacheKey_Unrounded(latitude, longitude) ==
    NumberToString(latitude, 10000) \o ","
        \o NumberToString(MathRound(longitude, 100), 100)

createCacheKey(latitude, longitude) ==
    LET lat == RoundToHundredths(latitude)
        lon == RoundToHundredths(longitude)
    IN  NumberToString(lat, 100) \o "," \o NumberToString(lon, 100)

\* the environment value: not set, or set to a string (a sequence of characters)
NotSet == [defined |-> FALSE, value |-> << >>]
SetTo(chars) == [defined |-> TRUE, value |-> chars]

\* e || dflt on an environment value: undefined and "" are falsy
OrDefault(e, dflt) == IF e.defined /\ e.value # << >> THEN e.value ELSE dflt

IsDigit(c) == c \in {"0", "1", "2", "3", "4", "5", "6", "7", "8", "9"}

DigitValue(c) ==
    CASE c = "0" -> 0 [] c = "1" -> 1 [] c = "2" -> 2 [] c = "3" -> 3
      [] c = "4" -> 4 [] c = "5" -> 5 [] c = "6" -> 6 [] c = "7" -> 7
      [] c = "8" -> 8 [] c = "9" -> 9

RECURSIVE TrimStart(_)
TrimStart(s) == IF s # << >> /\ Head(s) = " " THEN TrimStart(Tail(s)) ELSE s

RECURSIVE DigitPrefix(_)
\* the longest prefix of s made of digits
DigitPrefix(s) ==
    IF s # << >> /\ IsDigit(Head(s)) THEN <<Head(s)>> \o DigitPrefix(Tail(s))
    ELSE << >>

RECURSIVE DigitsValue(_, _)
DigitsValue(acc, s) ==
    IF s = << >> THEN acc ELSE DigitsValue(10 * acc + DigitValue(Head(s)), Tail(s))

\* parseInt(s, 10): leading white space is skipped, one sign is accepted, the
\* digits that follow are the value and whatever follows them is ignored; NaN
\* when no digit is there
parseInt(s) ==
    LET t == TrimStart(s)
        signed == t # << >> /\ Head(t) \in {"+", "-"}
        negative == signed /\ Head(t) = "-"
        d == DigitPrefix(IF signed THEN Tail(t) ELSE t)
    IN  IF d = << >> THEN NaN
        ELSE Num(IF negative THEN -DigitsValue(0, d) ELSE DigitsValue(0, d))

\* const CACHE_TTL_SECONDS = parseInt(process.env.CACHE_TTL_SECONDS || "3600", 10)
CACHE_TTL_SECONDS == parseInt(OrDefault(env, <<"3", "6", "0", "0">>))

\* what docClient.send settles to: a rejection, or a resolved output
Rejected(error) == [rejected |-> TRUE, error |-> error]
Resolved(value) == [rejected |-> FALSE, value |-> value]

\* {}: an object without properties
EmptyObject == [k \in {} |-> k]

\* GetCommand on the table: { Item } when the key is there, {} when it is not
GetCommand(table, key) ==
    IF key \in DOMAIN table THEN [Item |-> table[key]] ELSE EmptyObject

\* a variant: the table keeps every version of an Item, under key and ttl
PutCommand_Versioned(table, item) ==
    ((item.locationKey \o "#" \o ToString(item.ttl.val)) :> item) @@ table

\* a variant: of the Item in the table and the new one, the table keeps the
\* one that expires later
PutCommand_KeepsLaterTtl(table, item) ==
    IF /\ item.locationKey \in DOMAIN table
       /\ table[item.locationKey].ttl.val > item.ttl.val
    THEN table
    ELSE (item.locationKey :> item) @@ table

\* a variant: an Item that is already there keeps its data
PutCommand_KeepsData(table, item) ==
    IF item.locationKey \in DOMAIN table
    THEN (item.locationKey :> [item EXCEPT !.data = table[item.locationKey].data])
            @@ table
    ELSE (item.locationKey :> item) @@ table

\* PutCommand on the table: the Item takes the place of the one under its key
PutCommand(table, item) == (item.locationKey :> item) @@ table

\* a variant: the Item is returned as it is stored, not its data
getCachedData_WholeItem(sent) ==
    IF sent.rejected THEN Resolved(null)
    ELSE LET Item == Prop(sent.value, "Item")
         IN  IF Truthy(Item) /\ Truthy(Prop(Item, "data")) THEN Resolved(Item)
             ELSE Resolved(null)

\* a variant: an Item whose ttl has passed is taken as not there
getCachedData_ChecksTtl(sent) ==
    IF sent.rejected THEN Resolved(null)
    ELSE LET Item == Prop(sent.value, "Item")
         IN  IF /\ Truthy(Item) /\ Truthy(Prop(Item, "data"))
                /\ 1000 * Item.ttl.val > now
             THEN Resolved(Item.data)
             ELSE Resolved(null)

\* a variant: a failed lookup is thrown on to the caller
getCachedData_Rethrow(sent) ==
    IF sent.rejected THEN Rejected(sent.error)
    ELSE LET Item == Prop(sent.value, "Item")
         IN  IF Truthy(Item) /\ Truthy(Prop(Item, "data")) THEN Resolved(Item.data)
             ELSE Resolved(null)

\* a variant: the Item's data is returned without looking whether it is there
getCachedData_Unchecked(sent) ==
    IF sent.rejected THEN Resolved(null)
    ELSE LET Item == Prop(sent.value, "Item")
         IN  IF Truthy(Item) THEN Resolved(Prop(Item, "data")) ELSE Resolved(null)

\* getCachedData, given what docClient.send(new GetCommand(..)) settled to:
\* the promise it returns resolves in every case
getCachedData(sent) ==
    IF sent.rejected THEN Resolved(null)
    ELSE LET Item == Prop(sent.value, "Item")
         IN  IF Truthy(Item) /\ Truthy(Prop(Item, "data")) THEN Resolved(Item.data)
             ELSE Resolved(null)

\* a variant: Date.now() is taken as it is, in milliseconds
ComputeTtl_Millis(dateNow) == Plus(Num(dateNow), CACHE_TTL_SECONDS)

\* const ttl = Math.floor(Date.now() / 1000) + CACHE_TTL_SECONDS
ComputeTtl(dateNow) == Plus(Num(dateNow \div 1000), CACHE_TTL_SECONDS)

\* a variant: the Item is keyed by the coordinates of the reading, as they are
PutItem_KeyOfReading(key, reading, dateNow) ==
    [locationKey |-> NumberToString(reading.latitude, 10000) \o ","
                        \o NumberToString(reading.longitude, 10000),
     data |-> reading, ttl |-> ComputeTtl(dateNow)]

\* the PutCommand setCachedData builds: Item { locationKey, data, ttl }
PutItem(key, reading, dateNow) ==
    [locationKey |-> key, data |-> reading, ttl |-> ComputeTtl(dateNow)]

\* a variant: a failed write is thrown on to the caller
setCachedData_Rethrow(sent) ==
    IF sent.rejected THEN Rejected(sent.error) ELSE Resolved(undefined)

\* setCachedData, given what docClient.send(new PutCommand(..)) settled to:
\* the catch block logs a rejection and the promise resolves
setCachedData(sent) == Resolved(undefined)

\* the measurements of a reading's current block
Measurements == {"usAqi", "pm10", "pm25"}

\* DynamoDBDocumentClient.from(dynamoClient) marshals with its default
\* options: a NaN and a property whose value is undefined are both refused,
\* and send rejects before anything reaches the table
Marshallable(item) ==
    /\ ~item.ttl.nan
    /\ item.data.current # undefined
    /\ \A f \in Measurements : item.data.current[f] # undefined

-----------------------------------------------------------------------------
(* lambda/getAirQuality.ts *)

\* a variant: the cached reading is never taken
IsHit_Never(cached) == FALSE

\* if (cachedData)
IsHit(cached) == Truthy(cached)

\* a variant: the origin is asked for the rounded coordinates of the key
FetchParams_Rounded(req) ==
    [latitude |-> 100 * RoundToHundredths(req.latitude),
     longitude |-> 100 * RoundToHundredths(req.longitude)]

\* const params = { latitude, longitude, current: [..] }
FetchParams(req) == [latitude |-> req.latitude, longitude |-> req.longitude]

\* fetchWeatherApi: the URL fetched; URLSearchParams writes each number with
\* toString and percent-encodes the commas of current.join(",")
FetchUrl(params) ==
    "https://air-quality-api.open-meteo.com/v1/air-quality"
        \o "?latitude=" \o NumberToString(params.latitude, 10000)
        \o "&longitude=" \o NumberToString(params.longitude, 10000)
        \o "&current=us_aqi%2Cpm10%2Cpm2_5"

\* the property of the origin's current block that each result property reads
OriginField(f) ==
    CASE f = "time" -> "time" [] f = "usAqi" -> "us_aqi"
      [] f = "pm10" -> "pm10" [] f = "pm25" -> "pm2_5"

\* a variant: pm25 is read from the origin's pm10
Transform_Pm25FromPm10(body) ==
    LET c == Prop(body, "current")
    IN  [latitude |-> body.latitude,
         longitude |-> body.longitude,
         current |-> IF Truthy(c)
                     THEN [time |-> Prop(c, "time"), usAqi |-> Prop(c, "us_aqi"),
                           pm10 |-> Prop(c, "pm10"), pm25 |-> Prop(c, "pm10")]
                     ELSE undefined]

\* const result = { latitude, longitude, current: data.current ? {..} : undefined };
\* the object literal has every property it names, with the value undefined
\* where the origin had none
Transform(body) ==
    LET c == Prop(body, "current")
    IN  [latitude |-> body.latitude,
         longitude |-> body.longitude,
         current |-> IF Truthy(c)
                     THEN [f \in {"time"} \cup Measurements |-> Prop(c, OriginField(f))]
                     ELSE undefined]

\* what the handler's promise settles to
Pending == [kind |-> "pending"]
Return(value) == [kind |-> "return", value |-> value]
Throw(message) == [kind |-> "throw", message |-> message]

\* a variant: the caught error's message is thrown as it is
HandlerCatch_Bare(error) ==
    Throw(IF error.isError THEN error.message ELSE "Unknown error")

\* catch (error) { throw new Error(`Failed to fetch air quality data: ${..}`) }
HandlerCatch(error) ==
    Throw("Failed to fetch air quality data: "
            \o (IF error.isError THEN error.message ELSE "Unknown error"))

\* a variant: the status of the response is not looked at
IsApiFailure_Never(resp) == FALSE

\* if (!response.ok)
IsApiFailure(resp) == ~resp.ok

\* throw new Error(`Open-Meteo API error: ${response.status} ${response.statusText}`)
ApiError(resp) ==
    Error("Open-Meteo API error: " \o ToString(resp.status) \o " " \o resp.statusText)

-----------------------------------------------------------------------------
(* lambda/getAirQuality.ts as it is without the cache: one call of the       *)
(* handler, given what its fetch and its response.json() settle to           *)

\* what the handler asks the origin for and what its promise settles to
handlerUncached(req, fetched, parsed) ==
    LET url == "https://air-quality-api.open-meteo.com/v1/air-quality"
                  \o "?latitude=" \o NumberToString(req.latitude, 10000)
                  \o "&longitude=" \o NumberToString(req.longitude, 10000)
                  \o "&current=us_aqi%2Cpm10%2Cpm2_5"
        Caught(error) ==
            Throw("Failed to fetch air quality data: "
                    \o (IF error.isError THEN error.message ELSE "Unknown error"))
        settled ==
            IF fetched.rejected THEN Caught(fetched.error)
            ELSE IF ~fetched.value.ok
            THEN Caught(Error("Open-Meteo API error: " \o ToString(fetched.value.status)
                                 \o " " \o fetched.value.statusText))
            ELSE IF parsed.rejected THEN Caught(parsed.error)
            ELSE IF parsed.value = null
            THEN Caught(Error("Cannot read properties of null (reading 'latitude')"))
            ELSE LET current == Prop(parsed.value, "current")
                 IN  Return([latitude |-> parsed.value.latitude,
                             longitude |-> parsed.value.longitude,
                             current |->
                                 IF Truthy(current)
                                 THEN [time |-> Prop(current, "time"),
                                       usAqi |-> Prop(current, "us_aqi"),
                                       pm10 |-> Prop(current, "pm10"),
                                       pm25 |-> Prop(current, "pm2_5")]
                                 ELSE undefined])
    IN  [url |-> url, settled |-> settled]

-----------------------------------------------------------------------------
(* The environment: invocations, the origin, the table, the clock *)

MaxInvocations == 2
MaxTicks == 1

Procs == {"a", "b"}

\* event.arguments.input: the first two share a key, the third has a tie
Requests ==
    { [latitude |-> 407128, longitude |-> -740060],
      [latitude |-> 407129, longitude |-> -740061],
      [latitude |-> -1250, longitude |-> 1512093] }

\* process.env.CACHE_TTL_SECONDS: unset (which configures the 3600 the stack
\* deploys), one second, and no number at all
EnvValues == {NotSet, SetTo(<<"1">>), SetTo(<<"a", "b", "c">>)}

\* what fetch settles to: a network failure, or a Response
FetchOutcomes ==
    { Rejected(Error("Network error")),
      Resolved([ok |-> FALSE, status |-> 500, statusText |-> "Internal Server Error"]),
      Resolved([ok |-> TRUE, status |-> 200, statusText |-> "OK"]) }

\* the bodies the origin answers a request with: a current block with every
\* measurement, one without pm10, and no current block (pm10 and pm2_5 in
\* tenths)
Bodies(req) ==
    LET coords == [latitude |-> req.latitude, longitude |-> req.longitude]
    IN  { coords @@ ("current" :> [time |-> "2024-01-01T12:00", interval |-> 900,
                                   us_aqi |-> Num(50), pm10 |-> Num(255),
                                   pm2_5 |-> Num(152)]),
          coords @@ ("current" :> [time |-> "2024-01-01T12:00", interval |-> 900,
                                   us_aqi |-> Num(50), pm2_5 |-> Num(152)]),
          coords }

\* what response.json() settles to: a parse failure, the body null, or an object
JsonOutcomes(req) ==
    {Rejected(Error("Invalid JSON")), Resolved(null)}
        \cup {Resolved(b) : b \in Bodies(req)}

\* reading a property of null throws a TypeError
NullTypeError == Error("Cannot read properties of null (reading 'latitude')")

\* the error of a table that cannot be reached
TableError == Error("DynamoDB error")

\* the error of the document client for an Item it cannot marshal
MarshalError == Error("Cannot marshal the Item")

\* what docClient.send(new GetCommand(..)) settles to
GetOutcomes(table, key) ==
    {Rejected(TableError), Resolved(GetCommand(table, key))}

\* what docClient.send(new PutCommand(..)) settles to
PutOutcomes(item) ==
    IF Marshallable(item) THEN {Rejected(TableError), Resolved(EmptyObject)}
    ELSE {Rejected(MarshalError)}

EmptyTable == [k \in {} |-> k]

\* no invocation has begun
NoInvocation ==
    /\ pc = [p \in Procs |-> "idle"]
    /\ input = [p \in Procs |-> undefined]
    /\ locationKey = [p \in Procs |-> ""]
    /\ cachedData = [p \in Procs |-> undefined]
    /\ response = [p \in Procs |-> undefined]
    /\ data = [p \in Procs |-> undefined]
    /\ result = [p \in Procs |-> undefined]
    /\ pending = [p \in Procs |-> undefined]
    /\ caught = [p \in Procs |-> undefined]
    /\ outcome = [p \in Procs |-> Pending]
    /\ calls = [p \in Procs |-> << >>]
    /\ started = 0

\* the stack has just been deployed: the table is empty
Init ==
    /\ env \in EnvValues
    /\ now = 500
    /\ store = EmptyTable
    /\ writeInfo = EmptyTable
    /\ NoInvocation

\* a variant: after its return value is set the handler starts over
Returns_StartingOver(p, value) ==
    /\ outcome' = [outcome EXCEPT ![p] = Return(value)]
    /\ pc' = [pc EXCEPT ![p] = "get"]
    /\ UNCHANGED caught

\* the handler returns: nothing of the invocation runs after it
Returns(p, value) ==
    /\ outcome' = [outcome EXCEPT ![p] = Return(value)]
    /\ pc' = [pc EXCEPT ![p] = "done"]
    /\ UNCHANGED caught

\* a variant: a fetch that fails is tried a second time
Throws_RetryingFetch(p, error) ==
    IF pc[p] = "fetch" /\ Len(calls[p]) < 2
    THEN /\ pc' = [pc EXCEPT ![p] = "fetch"]
         /\ UNCHANGED <<caught, outcome>>
    ELSE /\ caught' = [caught EXCEPT ![p] = error]
         /\ outcome' = [outcome EXCEPT ![p] = HandlerCatch(error)]
         /\ pc' = [pc EXCEPT ![p] = "done"]

\* the try block throws: the catch block wraps the error and the handler fails
Throws(p, error) ==
    /\ caught' = [caught EXCEPT ![p] = error]
    /\ outcome' = [outcome EXCEPT ![p] = HandlerCatch(error)]
    /\ pc' = [pc EXCEPT ![p] = "done"]

\* a variant: setCachedData is not awaited, the handler returns as it starts
Goes_NotAwaitingWrite(p, label) ==
    /\ pc' = [pc EXCEPT ![p] = label]
    /\ outcome' = IF label = "put" THEN [outcome EXCEPT ![p] = Return(result'[p])]
                  ELSE outcome
    /\ UNCHANGED caught

\* the handler goes on to its next await
Goes(p, label) ==
    /\ pc' = [pc EXCEPT ![p] = label]
    /\ UNCHANGED <<caught, outcome>>

\* the execution environment an invocation runs in: the first one that is free
FreeSlot(p) ==
    /\ pc[p] \in {"idle", "done"}
    /\ p = "a" \/ pc["a"] \notin {"idle", "done"}

\* handler(event), up to its first await
Invoke(p, req) ==
    /\ FreeSlot(p)
    /\ started < MaxInvocations
    /\ started' = started + 1
    /\ input' = [input EXCEPT ![p] = req]
    /\ locationKey' = [locationKey EXCEPT ![p] = createCacheKey(req.latitude, req.longitude)]
    /\ cachedData' = [cachedData EXCEPT ![p] = undefined]
    /\ response' = [response EXCEPT ![p] = undefined]
    /\ data' = [data EXCEPT ![p] = undefined]
    /\ result' = [result EXCEPT ![p] = undefined]
    /\ pending' = [pending EXCEPT ![p] = undefined]
    /\ caught' = [caught EXCEPT ![p] = undefined]
    /\ outcome' = [outcome EXCEPT ![p] = Pending]
    /\ calls' = [calls EXCEPT ![p] = << >>]
    /\ pc' = [pc EXCEPT ![p] = "get"]
    /\ UNCHANGED <<env, now, store, writeInfo>>

\* await getCachedData(locationKey) settles; if (cachedData) return cachedData
AwaitGetCachedData(p) ==
    /\ pc[p] = "get"
    /\ \E sent \in GetOutcomes(store, locationKey[p]) :
         LET got == getCachedData(sent)
         IN  /\ calls' = [calls EXCEPT ![p] =
                            Append(@, [op |-> "get", key |-> locationKey[p],
                                       sent |-> sent, settled |-> got])]
             /\ IF got.rejected
                THEN /\ Throws(p, got.error)
                     /\ UNCHANGED cachedData
                ELSE /\ cachedData' = [cachedData EXCEPT ![p] = got.value]
                     /\ IF IsHit(got.value) THEN Returns(p, got.value)
                        ELSE Goes(p, "fetch")
    /\ UNCHANGED <<env, now, store, writeInfo, input, locationKey, response,
                   data, result, pending, started>>

\* await fetchWeatherApi(url, params) settles; if (!response.ok) throw
AwaitFetch(p) ==
    /\ pc[p] = "fetch"
    /\ \E settled \in FetchOutcomes :
         /\ LET params == FetchParams(input[p])
            IN  calls' = [calls EXCEPT ![p] =
                            Append(@, [op |-> "fetch", latitude |-> params.latitude,
                                       longitude |-> params.longitude,
                                       url |-> FetchUrl(params), settled |-> settled])]
         /\ IF settled.rejected
            THEN /\ Throws(p, settled.error)
                 /\ UNCHANGED response
            ELSE /\ response' = [response EXCEPT ![p] = settled.value]
                 /\ IF IsApiFailure(settled.value) THEN Throws(p, ApiError(settled.value))
                    ELSE Goes(p, "json")
    /\ UNCHANGED <<env, now, store, writeInfo, input, locationKey, cachedData,
                   data, result, pending, started>>

\* await response.json() settles; the result is built and setCachedData runs
\* up to its await: the ttl is computed and the PutCommand is sent
AwaitJson(p) ==
    /\ pc[p] = "json"
    /\ \E settled \in JsonOutcomes(input[p]) :
         IF settled.rejected
         THEN /\ Throws(p, settled.error)
              /\ calls' = [calls EXCEPT ![p] =
                             Append(@, [op |-> "json", settled |-> settled])]
              /\ UNCHANGED <<data, result, pending>>
         ELSE /\ data' = [data EXCEPT ![p] = settled.value]
              /\ IF settled.value = null
                 THEN /\ Throws(p, NullTypeError)
                      /\ calls' = [calls EXCEPT ![p] =
                                     Append(@, [op |-> "json", settled |-> settled])]
                      /\ UNCHANGED <<result, pending>>
                 ELSE LET res == Transform(settled.value)
                          item == PutItem(locationKey[p], res, now)
                      IN  /\ result' = [result EXCEPT ![p] = res]
                          /\ pending' = [pending EXCEPT ![p] = item]
                          /\ calls' = [calls EXCEPT ![p] =
                                         @ \o << [op |-> "json", settled |-> settled],
                                                 [op |-> "put", key |-> locationKey[p],
                                                  data |-> res, item |-> item,
                                                  at |-> now] >>]
                          /\ Goes(p, "put")
    /\ UNCHANGED <<env, now, store, writeInfo, input, locationKey, cachedData,
                   response, started>>

\* docClient.send(new PutCommand(..)) settles and with it setCachedData;
\* await setCachedData(locationKey, result) settles; return result
AwaitSetCachedData(p) ==
    /\ pc[p] = "put"
    /\ \E sent \in PutOutcomes(pending[p]) :
         LET put == setCachedData(sent)
         IN  /\ IF sent.rejected
                THEN UNCHANGED <<store, writeInfo>>
                ELSE /\ store' = PutCommand(store, pending[p])
                     /\ writeInfo' = (pending[p].locationKey :>
                                          (calls[p][Len(calls[p])]
                                             @@ [request |-> input[p],
                                                 fetched |-> calls[p][2],
                                                 body |-> calls[p][3]]))
                                        @@ writeInfo
             /\ calls' = [calls EXCEPT ![p] =
                            Append(@, [op |-> "put-settled", sent |-> sent,
                                       replaced |-> Prop(store, pending[p].locationKey),
                                       settled |-> put])]
             /\ IF put.rejected THEN Throws(p, put.error)
                ELSE Returns(p, result[p])
    /\ UNCHANGED <<env, now, input, locationKey, cachedData, response, data,
                   result, pending, started>>

\* time passes, a second at a time, from an instant within a second
Tick ==
    /\ now < 500 + 1000 * MaxTicks
    /\ now' = now + 1000
    /\ UNCHANGED <<env, store, writeInfo, pc, input, locationKey, cachedData,
                   response, data, result, pending, caught, outcome, calls, started>>

\* the table's timeToLiveAttribute: DynamoDB deletes an Item whose ttl has passed
Expire(k) ==
    /\ k \in DOMAIN store
    /\ "ttl" \in DOMAIN store[k]
    /\ 1000 * store[k].ttl.val <= now
    /\ store' = [j \in DOMAIN store \ {k} |-> store[j]]
    /\ writeInfo' = [j \in DOMAIN writeInfo \ {k} |-> writeInfo[j]]
    /\ UNCHANGED <<env, now, pc, input, locationKey, cachedData, response, data,
                   result, pending, caught, outcome, calls, started>>

\* the steps of the invocations running in `slots`, of the clock and of the table
NextOf(slots, requests) ==
    \/ \E p \in slots, req \in requests : Invoke(p, req)
    \/ \E p \in slots : AwaitGetCachedData(p)
    \/ \E p \in slots : AwaitFetch(p)
    \/ \E p \in slots : AwaitJson(p)
    \/ \E p \in slots : AwaitSetCachedData(p)
    \/ Tick
    \/ \E k \in DOMAIN store : Expire(k)

Next == NextOf(Procs, Requests)

Spec == Init /\ [][Next]_vars

\* every call an invocation awaits settles in the end, with a value or a fault
CallsSettle ==
    \A p \in Procs :
        /\ WF_vars(AwaitGetCachedData(p))
        /\ WF_vars(AwaitFetch(p))
        /\ WF_vars(AwaitJson(p))
        /\ WF_vars(AwaitSetCachedData(p))

\* a table whose Items live for one second, so that they expire in the time
\* looked at, and requests for two coordinates that share a key
InitLive ==
    /\ env = SetTo(<<"1">>)
    /\ now = 500
    /\ store = EmptyTable
    /\ writeInfo = EmptyTable
    /\ NoInvocation

LiveRequests == {req \in Requests : req.latitude > 0}

NextLive == NextOf(Procs, LiveRequests)

SpecLive == InitLive /\ [][NextLive]_vars /\ CallsSettle

-----------------------------------------------------------------------------
(* The same handler against a table that already holds an Item, as the unit  *)
(* tests of the repository set it up: an Item without data, with data null,  *)
(* with a reading whose ttl has passed, with a reading whose ttl has not.     *)

StoredReading ==
    [latitude |-> 407000, longitude |-> -740000,
     current |-> [time |-> "2023-12-31T23:00", usAqi |-> Num(42), pm10 |-> Num(180),
                  pm25 |-> Num(90)]]

StoredKey == "40.71,-74.01"

StoredItems ==
    { [locationKey |-> StoredKey],
      [locationKey |-> StoredKey, data |-> null, ttl |-> Num(4100)],
      [locationKey |-> StoredKey, data |-> StoredReading, ttl |-> Num(0)],
      [locationKey |-> StoredKey, data |-> StoredReading, ttl |-> Num(4100)] }

InitTable ==
    /\ env = NotSet
    /\ now = 500
    /\ \E item \in StoredItems : store = (item.locationKey :> item)
    /\ writeInfo = EmptyTable
    /\ NoInvocation

NextTable == NextOf({"a"}, Requests)

SpecTable == InitTable /\ [][NextTable]_vars

-----------------------------------------------------------------------------
(* createCacheKey over a wider set of coordinates: the handler's first       *)
(* statements, run by two invocations.                                       *)

\* latitudes: two that share a hundredth, their rounded value, a negative
\* one and its rounded value, ties on both sides of zero and their rounded
\* values, a negative that rounds to -0, and 0
KeyLatitudes ==
    {407128, 407129, 407100, -338688, -338700, 1250, 1300, -1250, -1200, -1300,
     -10, 0}

KeyLongitudes == {-740060, -740061, -740100, 1512093}

KeyRequests ==
    {[latitude |-> lat, longitude |-> lon] : lat \in KeyLatitudes, lon \in KeyLongitudes}

InitKey ==
    /\ env = NotSet
    /\ now = 500
    /\ store = EmptyTable
    /\ writeInfo = EmptyTable
    /\ NoInvocation

NextKey == \E p \in Procs, req \in KeyRequests : Invoke(p, req)

SpecKey == InitKey /\ [][NextKey]_vars

-----------------------------------------------------------------------------
(* What an invocation's history says *)

\* a reading: an object with coordinates
IsReading(v) == "latitude" \in DOMAIN v

Done(p) == pc[p] = "done"

\* the operations of an invocation's calls, in order
Ops(p) == [i \in 1..Len(calls[p]) |-> calls[p][i].op]

\* the calls of one kind an invocation made
CallsOf(p, op) == {i \in 1..Len(calls[p]) : calls[p][i].op = op}

\* getCachedData returned a reading to the handler
GotCached(p) ==
    /\ CallsOf(p, "get") # {}
    /\ ~calls[p][1].settled.rejected
    /\ IsReading(calls[p][1].settled.value)

\* getCachedData returned, and returned no reading
GotNoCached(p) ==
    /\ CallsOf(p, "get") # {}
    /\ ~calls[p][1].settled.rejected
    /\ ~IsReading(calls[p][1].settled.value)

\* the three origin faults: the transport failed, the status was not 2xx, the
\* body could not be decoded (json() rejected, or the body is null)
TransportFault(p) ==
    \E i \in CallsOf(p, "fetch") : calls[p][i].settled.rejected

HttpFault(p) ==
    \E i \in CallsOf(p, "fetch") :
        ~calls[p][i].settled.rejected /\ ~calls[p][i].settled.value.ok

DecodeFault(p) ==
    \E i \in CallsOf(p, "json") :
        calls[p][i].settled.rejected \/ calls[p][i].settled.value = null

OriginFailed(p) == TransportFault(p) \/ HttpFault(p) \/ DecodeFault(p)

\* the origin answered 2xx with a body that is an object
OriginSucceeded(p) ==
    \E i \in CallsOf(p, "json") :
        ~calls[p][i].settled.rejected /\ calls[p][i].settled.value # null

\* the body the origin answered with
OriginBody(p) ==
    (CHOOSE e \in {calls[p][i] : i \in CallsOf(p, "json")} : TRUE).settled.value

\* the decimal text of the coordinates of Requests, as a person writes them
Written(n) ==
    CASE n = 407128 -> "40.7128" [] n = -740060 -> "-74.006"
      [] n = 407129 -> "40.7129" [] n = -740061 -> "-74.0061"
      [] n = -1250 -> "-0.125" [] n = 1512093 -> "151.2093"

Wrapped(message) == Throw("Failed to fetch air quality data: " \o message)

-----------------------------------------------------------------------------
(* Claims *)

\* C1: whenever getCachedData returns a reading to the handler, the handler
\* returns exactly that reading and the only call the invocation makes is the
\* cache read: no fetch, no setCachedData, no write to the table.
C1_CacheHitReturnsCached ==
    \A p \in Procs :
        GotCached(p) =>
            /\ outcome[p] = Return(calls[p][1].settled.value)
            /\ Ops(p) = <<"get">>

\* an invocation found the reading another one had cached, and is done
C1_Witness ==
    \E p \in Procs : Done(p) /\ GotCached(p) /\ DOMAIN store # {}

\* C2: an invocation that got no cached reading and whose origin answered
\* successfully has, when it is done, fetched exactly once, with the
\* coordinates as requested (not rounded), has called setCachedData exactly
\* once, with the key of the requested coordinates and the transformed result,
\* and has returned that same result.
C2_MissFetchesCachesReturns ==
    \A p \in Procs :
        (Done(p) /\ GotNoCached(p) /\ OriginSucceeded(p)) =>
            /\ Ops(p) = <<"get", "fetch", "json", "put", "put-settled">>
            /\ calls[p][2].latitude = input[p].latitude
            /\ calls[p][2].longitude = input[p].longitude
            /\ calls[p][2].url =
                 "https://air-quality-api.open-meteo.com/v1/air-quality?latitude="
                    \o Written(input[p].latitude) \o "&longitude="
                    \o Written(input[p].longitude) \o "&current=us_aqi%2Cpm10%2Cpm2_5"
            /\ calls[p][4].key = createCacheKey(input[p].latitude, input[p].longitude)
            /\ IsReading(calls[p][4].data)
            /\ calls[p][4].data = Transform(OriginBody(p))
            /\ outcome[p] = Return(calls[p][4].data)

\* an invocation for coordinates that differ from their rounded values missed,
\* fetched, and is done
C2_Witness ==
    \E p \in Procs :
        /\ Done(p) /\ GotNoCached(p) /\ OriginSucceeded(p)
        /\ input[p].latitude = 407128
        /\ outcome[p].kind = "return"

\* C3: an invocation that got no cached reading and whose origin call failed,
\* by transport, by status or by decoding, fails with one error whose message
\* is "Failed to fetch air quality data: " followed by the fault's own message:
\* "Open-Meteo API error: <status> <statusText>" for a status, the raw message
\* otherwise. It returns no reading and writes nothing.
C3_OriginFaultsWrapped ==
    \A p \in Procs :
        (Done(p) /\ GotNoCached(p) /\ OriginFailed(p)) =>
            /\ outcome[p].kind = "throw"
            /\ CallsOf(p, "put") = {}
            /\ TransportFault(p) =>
                 outcome[p] = Wrapped(calls[p][2].settled.error.message)
            /\ HttpFault(p) =>
                 outcome[p] = Wrapped("Open-Meteo API error: "
                                        \o ToString(calls[p][2].settled.value.status)
                                        \o " " \o calls[p][2].settled.value.statusText)
            /\ DecodeFault(p) =>
                 outcome[p] = Wrapped(IF calls[p][3].settled.rejected
                                      THEN calls[p][3].settled.error.message
                                      ELSE NullTypeError.message)

\* one invocation failed on the status 500 and the other on the body
C3_Witness ==
    /\ Done("a") /\ HttpFault("a")
    /\ outcome["a"] = Throw("Failed to fetch air quality data: Open-Meteo API error: 500 Internal Server Error")
    /\ Done("b") /\ DecodeFault("b")
    /\ outcome["b"] = Throw("Failed to fetch air quality data: Invalid JSON")

\* C4: whatever the cache does, a finished invocation has failed exactly when
\* it got no cached reading and the origin call failed; when the origin
\* answered successfully it returned the transformed origin result; and a
\* cache read that failed was taken as a miss: the handler went on to fetch.
C4_CacheOutageInvisible ==
    \A p \in Procs :
        Done(p) =>
            /\ outcome[p].kind = "throw" <=> (~GotCached(p) /\ OriginFailed(p))
            /\ OriginSucceeded(p) => outcome[p] = Return(Transform(OriginBody(p)))
            /\ calls[p][1].sent.rejected =>
                 /\ GotNoCached(p)
                 /\ Len(calls[p]) >= 2 /\ calls[p][2].op = "fetch"

\* the cache read failed, the cache write failed, and the reading came back
C4_Witness ==
    \E p \in Procs :
        /\ Done(p)
        /\ calls[p][1].sent.rejected
        /\ \E i \in CallsOf(p, "put-settled") : calls[p][i].sent.rejected
        /\ outcome[p].kind = "return"

\* C5: getCachedData never raises. It returns the stored data when the lookup
\* succeeded and the Item is there with data, and null when the Item is
\* absent, when the Item has no data, and when the lookup failed.
C5_GetCachedDataFailSoft ==
    \A p \in Procs :
        CallsOf(p, "get") # {} =>
            LET e == calls[p][1]
                found == ~e.sent.rejected /\ "Item" \in DOMAIN e.sent.value
                hasData == /\ found
                           /\ "data" \in DOMAIN e.sent.value.Item
                           /\ e.sent.value.Item.data # null
            IN  /\ ~e.settled.rejected
                /\ hasData => e.settled.value = e.sent.value.Item.data
                /\ ~hasData => e.settled.value = null

\* the lookup found an Item that has no data, and null came back
C5_Witness ==
    \E p \in Procs :
        /\ CallsOf(p, "get") # {}
        /\ ~calls[p][1].sent.rejected
        /\ "Item" \in DOMAIN calls[p][1].sent.value
        /\ "data" \notin DOMAIN calls[p][1].sent.value.Item
        /\ calls[p][1].settled = Resolved(null)

\* C6: when the write to the table fails, setCachedData still completes
\* normally and the handler returns the transformed origin result, as it does
\* when the write succeeds.
C6_SetCachedDataFailSoft ==
    \A p \in Procs :
        \A i \in CallsOf(p, "put-settled") :
            calls[p][i].sent.rejected =>
                /\ ~calls[p][i].settled.rejected
                /\ outcome[p] = Return(Transform(OriginBody(p)))

\* a write failed and the invocation is done
C6_Witness ==
    \E p \in Procs :
        /\ Done(p)
        /\ \E i \in CallsOf(p, "put-settled") : calls[p][i].sent.rejected
        /\ IsReading(outcome[p].value)

-----------------------------------------------------------------------------
(* Rounding, stated without the code's arithmetic: h hundredths is the value *)
(* v (in 1/10000) rounded to the nearest hundredth                           *)

\* a tie goes up, to the larger hundredth
NearestTieUp(h, v) == 100 * h - 50 <= v /\ v < 100 * h + 50

\* a tie goes away from zero
NearestTieAway(h, v) ==
    IF v >= 0 THEN 100 * h - 50 <= v /\ v < 100 * h + 50
    ELSE 100 * h - 50 < v /\ v <= 100 * h + 50

\* the hundredths next to v
Around(v) == ((v \div 100) - 1)..((v \div 100) + 1)

Started(p) == pc[p] # "idle"

\* the examples the repository's tests and its specification give
KeyExamples(p) ==
    /\ (input[p].latitude = 407128 /\ input[p].longitude = -740060)
          => locationKey[p] = "40.71,-74.01"
    /\ (input[p].latitude = 407100 /\ input[p].longitude = -740100)
          => locationKey[p] = "40.71,-74.01"
    /\ (input[p].latitude = -338688 /\ input[p].longitude = 1512093)
          => locationKey[p] = "-33.87,151.21"

\* C7, as amended: each component of the key is the coordinate rounded to the
\* nearest hundredth, a tie going up (towards plus infinity, so -0.125 gives
\* -0.12), each axis on its own, and the key is "<lat>,<lon>".
C7_KeyRoundsTiesUp ==
    \A p \in Procs :
        Started(p) =>
            /\ \E hLat \in Around(input[p].latitude), hLon \in Around(input[p].longitude) :
                 /\ NearestTieUp(hLat, input[p].latitude)
                 /\ NearestTieUp(hLon, input[p].longitude)
                 /\ locationKey[p] = NumberToString(hLat, 100) \o ","
                                        \o NumberToString(hLon, 100)
            /\ KeyExamples(p)

\* C7, as claimed: each component of the key is the coordinate rounded to the
\* nearest hundredth, a tie going away from zero, and the key is "<lat>,<lon>".
C7_KeyRoundsTiesAwayFromZero ==
    \A p \in Procs :
        Started(p) =>
            \E hLat \in Around(input[p].latitude), hLon \in Around(input[p].longitude) :
                /\ NearestTieAway(hLat, input[p].latitude)
                /\ NearestTieAway(hLon, input[p].longitude)
                /\ locationKey[p] = NumberToString(hLat, 100) \o ","
                                       \o NumberToString(hLon, 100)

\* the key of a latitude half-way between two hundredths, below zero: -0.125
C7_Witness ==
    \E p \in Procs :
        /\ Started(p)
        /\ input[p].latitude = -1250 /\ input[p].longitude = 1512093
        /\ locationKey[p] = "-0.12,151.21"

\* two coordinates have the same rounded components
SameRounded(r1, r2) ==
    /\ \E h \in Around(r1.latitude) :
         NearestTieUp(h, r1.latitude) /\ NearestTieUp(h, r2.latitude)
    /\ \E h \in Around(r1.longitude) :
         NearestTieUp(h, r1.longitude) /\ NearestTieUp(h, r2.longitude)

\* a coordinate that is a whole number of hundredths on both axes
IsRounded(r) == r.latitude % 100 = 0 /\ r.longitude % 100 = 0

\* C8: two coordinates whose rounded components are equal have the same key;
\* so the key of an already rounded coordinate is the key of every coordinate
\* that rounds to it, and nearby coordinates collapse to one key.
C8_SameRoundedSameKey ==
    \A p, q \in Procs :
        (Started(p) /\ Started(q) /\ SameRounded(input[p], input[q]))
            => locationKey[p] = locationKey[q]

\* one invocation is for a coordinate and the other for its rounded value
C8_Witness ==
    \E p, q \in Procs :
        /\ Started(p) /\ Started(q)
        /\ input[p] # input[q]
        /\ ~IsRounded(input[p]) /\ IsRounded(input[q])
        /\ SameRounded(input[p], input[q])
        /\ locationKey[p] = locationKey[q]

-----------------------------------------------------------------------------

RECURSIVE AllDigits(_)
AllDigits(s) == s = << >> \/ (IsDigit(Head(s)) /\ AllDigits(Tail(s)))

\* the text of an integer: digits, after an optional sign
IsIntegerText(s) ==
    /\ s # << >>
    /\ LET d == IF Head(s) \in {"+", "-"} THEN Tail(s) ELSE s
       IN  d # << >> /\ AllDigits(d)

\* CACHE_TTL_SECONDS is absent from the environment, or is no integer
AbsentOrUnparsable == ~env.defined \/ ~IsIntegerText(env.value)

\* C9, as claimed: when the environment value is absent or cannot be parsed
\* as an integer, the configured TTL is 3600 and every Item setCachedData
\* builds has ttl = the whole seconds of its Date.now() + 3600.
C9_TtlDefaultsTo3600 ==
    AbsentOrUnparsable =>
        /\ CACHE_TTL_SECONDS = Num(3600)
        /\ \A p \in Procs : \A i \in CallsOf(p, "put") :
             calls[p][i].item.ttl = Num((calls[p][i].at \div 1000) + 3600)

\* C10: every Item in the table is { locationKey, data, ttl }: locationKey is
\* the key it is stored under, data is the reading that was passed to
\* setCachedData, and ttl is the whole epoch seconds of the Date.now() of
\* that call plus the configured TTL seconds.
C10_StoredItemsWellFormed ==
    \A k \in DOMAIN store :
        LET item == store[k]
            call == writeInfo[k]
        IN  /\ DOMAIN item = {"locationKey", "data", "ttl"}
            /\ item.locationKey = k
            /\ call.key = k
            /\ item.data = call.data
            /\ ~item.ttl.nan /\ ~CACHE_TTL_SECONDS.nan
            /\ LET seconds == item.ttl.val - CACHE_TTL_SECONDS.val
               IN  1000 * seconds <= call.at /\ call.at < 1000 * (seconds + 1)

\* the table holds an Item written after the clock has moved
C10_Witness ==
    \E k \in DOMAIN store : writeInfo[k].at > 1000 /\ store[k].ttl.val > 1

-----------------------------------------------------------------------------

\* the result has the origin's coordinates and, of its current block, the
\* time and each measurement under its new name, undefined where the origin
\* had none; without a current block the result's current is undefined
MapsOrigin(res, body) ==
    /\ res.latitude = body.latitude
    /\ res.longitude = body.longitude
    /\ IF "current" \in DOMAIN body
       THEN /\ res.current.time = body.current.time
            /\ \A f \in Measurements :
                 IF OriginField(f) \in DOMAIN body.current
                 THEN res.current[f] = body.current[OriginField(f)]
                 ELSE res.current[f] = undefined
       ELSE res.current = undefined

\* the write of an invocation was refused by the document client itself, not
\* by the table
WriteRefused(p) ==
    \E i \in CallsOf(p, "put-settled") :
        calls[p][i].sent.rejected /\ calls[p][i].sent.error # TableError

\* C11, as claimed: for every successful origin response the result has the
\* body's coordinates and maps its current block field by field, an absent
\* field staying absent; that result is passed to setCachedData and, also
\* when it has no current block, is written to the cache: with a TTL that is
\* a number, its write fails only when the table does.
C11_OriginMappedAndCached ==
    \A p \in Procs :
        (GotNoCached(p) /\ OriginSucceeded(p)) =>
            /\ MapsOrigin(result[p], OriginBody(p))
            /\ \E i \in CallsOf(p, "put") : calls[p][i].data = result[p]
            /\ ~CACHE_TTL_SECONDS.nan => ~WriteRefused(p)

-----------------------------------------------------------------------------
(* Two invocations for one key *)

\* the lookup of an invocation reached the table and found no Item
FoundNothing(p) ==
    /\ CallsOf(p, "get") # {}
    /\ ~calls[p][1].sent.rejected
    /\ "Item" \notin DOMAIN calls[p][1].sent.value

\* the write of an invocation reached the table
Landed(p) == \E i \in CallsOf(p, "put-settled") : ~calls[p][i].sent.rejected

\* the Items of the table that carry a key
RecordsOf(k) == {j \in DOMAIN store : store[j].locationKey = k}

\* the ttl an invocation wrote has not passed: the table still keeps its Item
Unexpired(p) == 1000 * pending[p].ttl.val > now

\* two invocations for one key that both looked the key up before a write
\* of the other had reached the table
BothMissed(p, q) ==
    /\ p # q
    /\ locationKey[p] = locationKey[q]
    /\ FoundNothing(p) /\ FoundNothing(q)

\* each of the two, when its origin has succeeded and it is done, has made its
\* own origin request and its own setCachedData call and returned a reading
BothServeThemselves(p, q) ==
    \A r \in {p, q} :
        (Done(r) /\ OriginSucceeded(r)) =>
            /\ Cardinality(CallsOf(r, "fetch")) = 1
            /\ Cardinality(CallsOf(r, "put")) = 1
            /\ outcome[r].kind = "return" /\ IsReading(outcome[r].value)

\* C12, as amended: of two invocations for one key that both read the cache
\* before either has written it, neither is served by the other: each one
\* whose origin succeeds makes its own origin request and its own
\* setCachedData call and returns a reading. The table never holds more than
\* one Item under that key, and holds exactly one once the writes of the two
\* have reached it (until the table expires it); a write that fails or is
\* refused is swallowed and leaves no Item.
C12_NoCoalescing ==
    \A p, q \in Procs :
        BothMissed(p, q) =>
            /\ BothServeThemselves(p, q)
            /\ Cardinality(RecordsOf(locationKey[p])) <= 1
            /\ (Landed(p) /\ Landed(q) /\ Unexpired(p) /\ Unexpired(q)) =>
                 Cardinality(RecordsOf(locationKey[p])) = 1

\* C12, as claimed: of two invocations for one key that both read the cache
\* before either has written it, each makes its own origin request and its
\* own setCachedData call and returns a reading when its origin succeeds, and
\* when both are done the table holds exactly one Item under that key. (The
\* TTL is a number, the results can be marshalled and the TTL has not passed.)
C12_ExactlyOneRecord ==
    \A p, q \in Procs :
        BothMissed(p, q) =>
            /\ BothServeThemselves(p, q)
            /\ (/\ Done(p) /\ OriginSucceeded(p) /\ ~WriteRefused(p) /\ Unexpired(p)
                /\ Done(q) /\ OriginSucceeded(q) /\ ~WriteRefused(q) /\ Unexpired(q))
                 => Cardinality(RecordsOf(locationKey[p])) = 1

\* both invocations missed, fetched at different instants, wrote and returned
C12_Witness ==
    /\ env = NotSet
    /\ BothMissed("a", "b")
    /\ Done("a") /\ Done("b")
    /\ Landed("a") /\ Landed("b")
    /\ pending["a"].ttl # pending["b"].ttl
    /\ outcome["a"].kind = "return" /\ outcome["b"].kind = "return"
    /\ Cardinality(RecordsOf(locationKey["a"])) = 1

\* the write of p reached the table after the write of q, whose Item it
\* found there
WroteOver(p, q) ==
    /\ pending[p] # pending[q]
    /\ \E i \in CallsOf(p, "put-settled") :
         ~calls[p][i].sent.rejected /\ calls[p][i].replaced = pending[q]

\* two invocations for one key that both missed, whose writes have both
\* reached the table, and whose ttl have not passed
BothWrote(p, q) ==
    /\ BothMissed(p, q)
    /\ Landed(p) /\ Landed(q)
    /\ Unexpired(p) /\ Unexpired(q)

\* C13, as amended: when two concurrent invocations both write the same key,
\* the Item that remains in the table is the one whose write reached the
\* table last, with the ttl that invocation computed, also when the other
\* invocation computed its ttl later.
C13_LastWriteRemains ==
    \A p, q \in Procs :
        BothWrote(p, q) =>
            /\ store[locationKey[p]] \in {pending[p], pending[q]}
            /\ WroteOver(p, q) => store[locationKey[p]] = pending[p]

\* C13, as claimed: when two concurrent invocations both write the same key,
\* the Item that remains in the table carries the later of the two ttl that
\* were computed.
C13_LastComputedTtlRemains ==
    \A p, q \in Procs :
        BothWrote(p, q) =>
            /\ store[locationKey[p]].ttl.val >= pending[p].ttl.val
            /\ store[locationKey[p]].ttl.val >= pending[q].ttl.val

\* the invocation that computed its ttl first wrote last: its ttl remains
C13_Witness ==
    \E p, q \in Procs :
        /\ BothWrote(p, q)
        /\ WroteOver(p, q)
        /\ pending[p].ttl.val < pending[q].ttl.val
        /\ store[locationKey[p]].ttl = pending[p].ttl

\* C14, as amended: when two concurrent invocations for the same uncached key
\* both fetch and both write, each write carries the transform of the body
\* its own origin request returned; the two carry the same data when the
\* origin answered both alike, and otherwise the data of the Item finally
\* stored is the data of the write that reached the table last.
C14_StoredDataIsLastWritten ==
    \A p, q \in Procs :
        BothWrote(p, q) =>
            /\ pending[p].data = Transform(OriginBody(p))
            /\ pending[q].data = Transform(OriginBody(q))
            /\ OriginBody(p) = OriginBody(q) =>
                 store[locationKey[p]].data = pending[p].data
            /\ WroteOver(p, q) => store[locationKey[p]].data = pending[p].data

\* C14, as claimed: when two concurrent invocations for the same uncached key
\* both fetch and both write, the two writes carry the same data, so that the
\* data finally stored is the data of either write.
C14_WritesCarrySameData ==
    \A p, q \in Procs :
        BothWrote(p, q) =>
            /\ pending[p].data = pending[q].data
            /\ store[locationKey[p]].data = pending[p].data

\* two invocations for nearby coordinates wrote different readings under one
\* key, and the reading written last is the one stored
C14_Witness ==
    \E p, q \in Procs :
        /\ BothWrote(p, q)
        /\ WroteOver(p, q)
        /\ input[p] # input[q]
        /\ pending[p].data # pending[q].data
        /\ store[locationKey[p]].data = pending[p].data

-----------------------------------------------------------------------------
(* The life of an Item *)

\* the origin answered the invocation with a 2xx response whose body is an
\* object
GotOriginResponse(p) ==
    /\ \E i \in CallsOf(p, "fetch") :
         ~calls[p][i].settled.rejected /\ calls[p][i].settled.value.ok
    /\ OriginSucceeded(p)

\* the table after the Item has taken the place of whatever was under its key
Replacing(table, item) ==
    [j \in DOMAIN table \cup {item.locationKey} |->
        IF j = item.locationKey THEN item ELSE table[j]]

\* a step of the handler in invocation p
StepOf(p) == pc'[p] # pc[p]

\* a step of invocation p changes the table only as a write of an invocation
\* that got no cached reading and then a successful origin response, and the
\* change is that its Item replaces, whole, whatever was under its key
WritesOnlyAfterMissAndFetch(p) ==
    (StepOf(p) /\ store' # store) =>
        /\ pc[p] = "put"
        /\ GotNoCached(p)
        /\ GotOriginResponse(p)
        /\ DOMAIN pending[p] = {"locationKey", "data", "ttl"}
        /\ store' = Replacing(store, pending[p])

\* C15: in every step of every invocation, the table changes only by a write
\* of an invocation that first got no reading from getCachedData and then a
\* successful origin response; so an invocation that hits the cache or whose
\* origin call fails leaves the table as it is; a write replaces the whole
\* Item under its key and touches no other; and no step of the handler
\* removes an Item.
C15_RecordLifecycle ==
    [][\A p \in Procs : WritesOnlyAfterMissAndFetch(p)]_vars

\* a write has replaced the Item another invocation had written
C15_Witness ==
    \E p \in Procs : \E i \in CallsOf(p, "put-settled") :
        /\ ~calls[p][i].sent.rejected
        /\ calls[p][i].replaced # undefined
        /\ calls[p][i].replaced # pending[p]
        /\ store[locationKey[p]] = pending[p]

-----------------------------------------------------------------------------
(* The order of an invocation's calls *)

\* the calls of an invocation that runs to its end, in order
AllOps == <<"get", "fetch", "json", "put", "put-settled">>

IsPrefix(s, t) == Len(s) <= Len(t) /\ \A i \in 1..Len(s) : s[i] = t[i]

\* the PutCommand of the invocation has been sent and has not settled
WriteInFlight(p) == CallsOf(p, "put") # {} /\ CallsOf(p, "put-settled") = {}

\* C16: the calls of an invocation happen one after the other, in the order
\* cache read, origin fetch, body, cache write: the fetch is in flight only
\* after the read has completed, the write only after the fetch and the body
\* have; while its write is in flight the handler has not returned, and a
\* handler that returned a fetched result has seen its write complete, with
\* success or with a swallowed fault.
C16_AwaitsSequential ==
    \A p \in Procs :
        /\ IsPrefix(Ops(p), AllOps)
        /\ pc[p] = "fetch" => Ops(p) = <<"get">>
        /\ pc[p] = "json" => Ops(p) = <<"get", "fetch">>
        /\ pc[p] = "put" <=> WriteInFlight(p)
        /\ WriteInFlight(p) => outcome[p] = Pending
        /\ (outcome[p].kind = "return" /\ CallsOf(p, "put") # {}) =>
             /\ Ops(p) = AllOps
             /\ ~calls[p][5].settled.rejected

\* one invocation has its write in flight, the other has returned after its
\* write failed
C16_Witness ==
    \E p, q \in Procs :
        /\ WriteInFlight(p) /\ outcome[p] = Pending
        /\ outcome[q].kind = "return" /\ Ops(q) = AllOps
        /\ calls[q][5].sent.rejected

\* the cache read, or the cache write, of the invocation failed
ReadFault(p) == \E i \in CallsOf(p, "get") : calls[p][i].sent.rejected
WriteFault(p) == \E i \in CallsOf(p, "put-settled") : calls[p][i].sent.rejected

\* C17: an invocation makes one cache read, at most one origin request (one
\* fetch, one reading of the body) and at most one cache write, whatever
\* fails: an origin fault ends the invocation with the failed call as its
\* last, a failed cache read is not repeated (the next call is the fetch),
\* and a failed cache write is not repeated (it is the last call).
C17_NoRetry ==
    \A p \in Procs :
        /\ Started(p) /\ pc[p] # "get" => Cardinality(CallsOf(p, "get")) = 1
        /\ \A op \in {"get", "fetch", "json", "put", "put-settled"} :
             Cardinality(CallsOf(p, op)) <= 1
        /\ OriginFailed(p) =>
             /\ Done(p)
             /\ calls[p][Len(calls[p])].op \in {"fetch", "json"}
             /\ CallsOf(p, "put") = {}
        /\ (ReadFault(p) /\ Len(calls[p]) > 1) => calls[p][2].op = "fetch"
        /\ WriteFault(p) =>
             /\ Done(p)
             /\ calls[p][Len(calls[p])].op = "put-settled"

\* the cache read failed and then the origin failed: two calls, no more
C17_Witness ==
    \E p \in Procs :
        /\ Done(p)
        /\ ReadFault(p) /\ TransportFault(p)
        /\ Ops(p) = <<"get", "fetch">>
        /\ outcome[p].kind = "throw"

-----------------------------------------------------------------------------
(* A reading cached by one invocation and read by another *)

\* the lookup of p found the Item that q wrote
FoundItemOf(p, q) ==
    /\ p # q
    /\ Landed(q)
    /\ CallsOf(p, "get") # {}
    /\ calls[p][1].sent = Resolved([Item |-> pending[q]])

\* C18: an invocation whose lookup finds the Item another invocation for the
\* same key wrote after its miss and its fetch returns exactly the reading
\* that invocation stored, with the coordinates the origin gave the writer
\* and not its own, and calls neither the origin nor setCachedData.
C18_CachedReadingServed ==
    \A p, q \in Procs :
        FoundItemOf(p, q) =>
            /\ locationKey[p] = locationKey[q]
            /\ GotNoCached(q) /\ OriginSucceeded(q)
            /\ outcome[p] = Return(Transform(OriginBody(q)))
            /\ outcome[p] = outcome[q]
            /\ outcome[p].value.latitude = OriginBody(q).latitude
            /\ outcome[p].value.longitude = OriginBody(q).longitude
            /\ Ops(p) = <<"get">>

\* a request for 40.7129,-74.0061 was served the reading cached for
\* 40.7128,-74.006
C18_Witness ==
    \E p, q \in Procs :
        /\ FoundItemOf(p, q)
        /\ input[q] = [latitude |-> 407128, longitude |-> -740060]
        /\ input[p] = [latitude |-> 407129, longitude |-> -740061]
        /\ outcome[p].kind = "return"
        /\ outcome[p].value.latitude = 407128
        /\ outcome[p].value.longitude = -740060

-----------------------------------------------------------------------------
(* The handler while the table cannot be reached *)

\* every cache operation of the finished invocation failed
CacheOutage(p) ==
    /\ Done(p)
    /\ ReadFault(p)
    /\ CallsOf(p, "put") # {} => WriteFault(p)

\* what the origin gave the invocation: what fetch settled to, and what
\* response.json() settled to when it was called
Fetched(p) == calls[p][2].settled
Parsed(p) == IF Len(calls[p]) >= 3 THEN calls[p][3].settled ELSE Rejected(undefined)

\* C19: an invocation all of whose cache operations fail behaves as the
\* handler without the cache does on the same input and the same origin
\* outcome: it makes one origin request, for the same URL, and returns the
\* same reading or fails with the same wrapped message.
C19_OutageEqualsUncached ==
    \A p \in Procs :
        CacheOutage(p) =>
            LET direct == handlerUncached(input[p], Fetched(p), Parsed(p))
            IN  /\ Cardinality(CallsOf(p, "fetch")) = 1
                /\ calls[p][2].url = direct.url
                /\ outcome[p] = direct.settled

\* under an outage one invocation returned the origin's reading and the
\* other failed on the origin's status
C19_Witness ==
    \E p, q \in Procs :
        /\ CacheOutage(p) /\ WriteFault(p)
        /\ IsReading(outcome[p].value) /\ outcome[p].value.current # undefined
        /\ CacheOutage(q) /\ HttpFault(q)
        /\ outcome[q].kind = "throw"

-----------------------------------------------------------------------------
(* An Item whose ttl has passed and that the table has not yet removed *)

\* the lookup of the invocation found an Item that has data
FoundItemWithData(p) ==
    /\ CallsOf(p, "get") # {}
    /\ ~calls[p][1].sent.rejected
    /\ "Item" \in DOMAIN calls[p][1].sent.value
    /\ Truthy(Prop(calls[p][1].sent.value.Item, "data"))

\* C20: a lookup that finds an Item with data is a hit whatever the Item's
\* ttl, also one that has passed: getCachedData returns the data and the
\* handler returns it without calling the origin. Once the table has removed
\* the Item the lookup finds nothing and is a miss.
C20_TtlNotLookedAt ==
    \A p \in Procs :
        /\ FoundItemWithData(p) =>
             /\ calls[p][1].settled = Resolved(calls[p][1].sent.value.Item.data)
             /\ outcome[p] = Return(calls[p][1].sent.value.Item.data)
             /\ Ops(p) = <<"get">>
        /\ FoundNothing(p) => calls[p][1].settled = Resolved(null)

\* the stored reading was served from an Item whose ttl was 0, at a time
\* after 0
C20_Witness ==
    \E p \in Procs :
        /\ FoundItemWithData(p)
        /\ calls[p][1].sent.value.Item.ttl = Num(0)
        /\ now > 0
        /\ outcome[p] = Return(StoredReading)

-----------------------------------------------------------------------------
(* The key an Item is stored under *)

\* the keys of the coordinates of Requests, as the repository's tests and
\* the rounding of C7 give them
KeyOfRequest(req) ==
    CASE req.latitude = 407128 -> "40.71,-74.01"
      [] req.latitude = 407129 -> "40.71,-74.01"
      [] req.latitude = -1250 -> "-0.12,151.21"

\* C21: every Item in the table is stored under the key of the coordinates
\* that the invocation which wrote it was called with and asked the origin
\* for, and its data is the transform of the body the origin answered that
\* request with; and every PutCommand an invocation sends is for the key of
\* its own request.
C21_StoredUnderOwnKey ==
    /\ \A k \in DOMAIN store :
         LET w == writeInfo[k]
         IN  /\ store[k].locationKey = k
             /\ k = KeyOfRequest(w.request)
             /\ k = createCacheKey(w.request.latitude, w.request.longitude)
             /\ w.fetched.op = "fetch"
             /\ w.fetched.latitude = w.request.latitude
             /\ w.fetched.longitude = w.request.longitude
             /\ ~w.fetched.settled.rejected /\ w.fetched.settled.value.ok
             /\ w.body.op = "json"
             /\ store[k].data = Transform(w.body.settled.value)
    /\ \A p \in Procs : \A i \in CallsOf(p, "put") :
         /\ calls[p][i].key = KeyOfRequest(input[p])
         /\ calls[p][i].item.locationKey = KeyOfRequest(input[p])

\* the table holds two Items, one of them written for coordinates that are
\* not their own rounded values
C21_Witness ==
    /\ Cardinality(DOMAIN store) = 2
    /\ \E k \in DOMAIN store :
         /\ writeInfo[k].request.latitude = 407129
         /\ k = "40.71,-74.01"

-----------------------------------------------------------------------------
(* One pass *)

\* the handler of the invocation is suspended at one of its awaits
Running(p) == pc[p] \in {"get", "fetch", "json", "put"}

\* how far the handler has come
Position(label) ==
    CASE label = "idle" -> 0 [] label = "get" -> 1 [] label = "fetch" -> 2
      [] label = "json" -> 3 [] label = "put" -> 4 [] label = "done" -> 5

\* the invocation has ended in one of its two outcomes: a reading returned,
\* or the error that was caught thrown on, wrapped
Ended(p) ==
    /\ Done(p)
    /\ \/ outcome[p].kind = "return" /\ IsReading(outcome[p].value)
       \/ outcome[p].kind = "throw" /\ outcome[p] = Wrapped(caught[p].message)

\* a step of the handler takes it forward, or ends it, or is the start of
\* the next invocation
GoesForward(p) ==
    \/ Position(pc'[p]) > Position(pc[p])
    \/ Done(p) /\ pc'[p] = "get" /\ calls'[p] = << >> /\ started' = started + 1

\* C22: when each call it awaits settles in the end, every invocation ends,
\* in a returned reading or in a wrapped error and in nothing else; until
\* then it has no outcome, and no step takes the handler back to an earlier
\* await.
C22_SinglePassTerminates ==
    /\ \A p \in Procs : Running(p) ~> Ended(p)
    /\ [](\A p \in Procs : (Done(p) => Ended(p)) /\ (Running(p) => outcome[p] = Pending))
    /\ [][\A p \in Procs : StepOf(p) => GoesForward(p)]_vars

\* one invocation has ended after all four awaits, the other on its second
C22_Witness ==
    \E p, q \in Procs :
        /\ Ended(p) /\ Len(calls[p]) = 5 /\ outcome[p].kind = "return"
        /\ Ended(q) /\ Len(calls[q]) = 2 /\ outcome[q].kind = "throw"

====
